---------------------------- MODULE Spec2Model ----------------------------
(***************************************************************************)
(* A model of the ml5 NeuralNetwork wrappers:                              *)
(*   - NeuralNetwork (src/src/NeuralNetwork/index.js, lines 20-455):       *)
(*     init / createModelFromDataInternal / addData, train (argument       *)
(*     forms) and trainInternal (batchSize, epochs, tensor hand-over to    *)
(*     model.fit), predictInternal (sample encoding, output decoding);     *)
(*   - the earlier NeuralNetwork.normalize (same file, lines 693-738);     *)
(*   - DiyNeuralNetwork (src/unnamed/part_000): loadDataInternal, train /  *)
(*     trainInternal, addDefaultLayers, compile.                           *)
(* JavaScript numbers are modelled as exact rationals extended with NaN    *)
(* and +/-Infinity, so that a division by zero is visible in the result.   *)
(***************************************************************************)
EXTENDS Integers, Sequences, FiniteSets, TLC

VARIABLES
    (* ---- NeuralNetwork instance (index.js 20-455) ---- *)
    task,           \* this.config.architecture.task
    inputNames,     \* this.data.config.dataOptions.inputs (array of keys)
    meta,           \* this.data.meta: inputs, outputs, inputUnits, outputUnits
    stats,          \* this.data.data: inputMin, inputMax, outputMin, outputMax
    dataTensor,     \* this.data.data.tensor: kind of inputs/outputs, disposed?
    predictPc,      \* position of the pending predictInternal call
    sample,         \* predictInternal: the sample argument
    encodedInput,   \* predictInternal: the local encodedInput
    results,        \* predictInternal: the value the promise resolves with
    err,            \* the error the last predict / train promise rejected with
    trainPc,        \* position of the pending trainInternal call
    trainOwned,     \* trainInternal: did the call create xs / ys itself
    live,           \* tensors created by train / predict calls and not disposed
    config,         \* this.config: the training values set by the constructor
    model,          \* this.model: "null" or "created"
    load,           \* createModelFromDataInternal: position, this.data.data.raw
    trainCall,      \* the last train call: arguments, what trainInternal and
                    \* model.fit received
    (* ---- earlier NeuralNetwork.normalize (index.js 693-738) ---- *)
    dataset,        \* the data argument of normalize
    normalized,     \* the value normalize returns
    (* ---- DiyNeuralNetwork (part_000) ---- *)
    diy             \* the DiyNeuralNetwork instance

vars == << task, inputNames, meta, stats, dataTensor, predictPc, sample,
           encodedInput, results, err, trainPc, trainOwned, live,
           config, model, load, trainCall, dataset, normalized, diy >>

nnVars == << task, inputNames, meta, stats, dataTensor, predictPc, sample,
             encodedInput, results, err, trainPc, trainOwned, live,
             config, model, load, trainCall >>

(***************************************************************************)
(* Bounds                                                                  *)
(***************************************************************************)
MaxVal == 1          \* raw numeric values range over 0..MaxVal
MaxVocab == 2        \* largest vocabulary of a categorical column
MaxLive == 3         \* undisposed tensors a session is followed up to
MaxRows == 2         \* rows of a dataset handed to normalize
MaxUrlLen == 3       \* segments of a dataUrl
MaxAdded == 2        \* rows handed to addData
MaxLayers == 3       \* layers of a DiyNeuralNetwork model

(***************************************************************************)
(* JavaScript numbers: <<n, d>> with d > 0 is the rational n/d in lowest   *)
(* terms; <<0, 0>> is NaN, <<1, 0>> is Infinity, <<-1, 0>> is -Infinity.   *)
(***************************************************************************)
Abs(i) == IF i < 0 THEN -i ELSE i

Sign(i) == IF i < 0 THEN -1 ELSE IF i > 0 THEN 1 ELSE 0

RECURSIVE GCD(_, _)
GCD(a, b) == IF b = 0 THEN a ELSE GCD(b, a % b)

Norm(n, d) ==
    IF d = 0 THEN << Sign(n), 0 >>
    ELSE LET s == IF d < 0 THEN -1 ELSE 1
             g == GCD(Abs(n), Abs(d))
         IN  << (s * n) \div g, (s * d) \div g >>

Num(i) == << i, 1 >>
NaN == << 0, 0 >>
IsNaN(a) == a = NaN
IsInf(a) == a[2] = 0 /\ a[1] # 0
IsFinite(a) == a[2] > 0
IsZero(a) == a[2] > 0 /\ a[1] = 0

JsAdd(a, b) ==
    IF IsNaN(a) \/ IsNaN(b) THEN NaN
    ELSE IF IsInf(a) /\ IsInf(b) THEN (IF a = b THEN a ELSE NaN)
    ELSE IF IsInf(a) THEN a
    ELSE IF IsInf(b) THEN b
    ELSE Norm(a[1] * b[2] + b[1] * a[2], a[2] * b[2])

JsNeg(a) == << -a[1], a[2] >>

JsSub(a, b) == JsAdd(a, JsNeg(b))

JsMul(a, b) ==
    IF IsNaN(a) \/ IsNaN(b) THEN NaN
    ELSE IF IsInf(a) \/ IsInf(b)
         THEN (IF IsZero(a) \/ IsZero(b) THEN NaN
               ELSE << Sign(a[1]) * Sign(b[1]), 0 >>)
    ELSE Norm(a[1] * b[1], a[2] * b[2])

JsDiv(a, b) ==
    IF IsNaN(a) \/ IsNaN(b) THEN NaN
    ELSE IF IsInf(b) THEN (IF IsInf(a) THEN NaN ELSE Num(0))
    ELSE IF IsInf(a) THEN << a[1] * (IF b[1] < 0 THEN -1 ELSE 1), 0 >>
    ELSE IF IsZero(b) THEN << Sign(a[1]), 0 >>
    ELSE Norm(a[1] * b[2], a[2] * b[1])

\* a < b on finite numbers
JsLess(a, b) == IsFinite(a) /\ IsFinite(b) /\ a[1] * b[2] < b[1] * a[2]

JsLeq(a, b) == IsFinite(a) /\ IsFinite(b) /\ a[1] * b[2] <= b[1] * a[2]


(***************************************************************************)
(* Generic helpers                                                         *)
(***************************************************************************)
Range(seq) == { seq[i] : i \in DOMAIN seq }

\* Array.prototype.indexOf, 1-based; 0 stands for JavaScript's -1
IndexOf(seq, x) ==
    IF \E i \in DOMAIN seq : seq[i] = x
    THEN CHOOSE i \in DOMAIN seq :
             seq[i] = x /\ \A j \in DOMAIN seq : seq[j] = x => i <= j
    ELSE 0

RECURSIVE SumSeq(_)
SumSeq(seq) == IF seq = << >> THEN 0 ELSE Head(seq) + SumSeq(Tail(seq))

(***************************************************************************)
(* The data the NeuralNetworkData collaborator keeps (its code is not in   *)
(* src/): column meta, legends, units and per-column min / max.            *)
(***************************************************************************)
InputPool == << "a", "b" >>
OutputPool == << "x", "y" >>
LabelPool == << "red", "blue", "green", "black" >>
Unseen == "mauve"

OneHot(i, n) == [ j \in 1..n |-> IF j = i THEN Num(1) ELSE Num(0) ]

\* a legend is a JavaScript object: its entries in insertion order
Legend(k) == [ i \in 1..k |-> [ key |-> LabelPool[i], value |-> OneHot(i, k) ] ]

NumericCols(name) ==
    { [ name |-> name, dtype |-> "number", min |-> p[1], max |-> p[2], legend |-> << >> ] :
        p \in { q \in (0..MaxVal) \X (0..MaxVal) : q[1] <= q[2] } }

StringCols(name) ==
    { [ name |-> name, dtype |-> "string", min |-> 0, max |-> 0, legend |-> Legend(k) ] :
        k \in 1..MaxVocab }

Cols(name) == NumericCols(name) \cup StringCols(name)

ColWidth(c) == IF c.dtype = "number" THEN 1 ELSE Len(c.legend)

\* getIOUnits: 1 per numeric column, |vocabulary| per categorical column
Units(cols) == SumSeq([ i \in DOMAIN cols |-> ColWidth(cols[i]) ])

\* the second column of a two-column meta: a regular numeric column, a constant
\* numeric column or a categorical column over the whole vocabulary
SecondNumericCols(name) ==
    { c \in NumericCols(name) : c.min = 0 /\ c.max \in { 0, MaxVal } }

SecondCols(name) ==
    SecondNumericCols(name) \cup { c \in StringCols(name) : Len(c.legend) = MaxVocab }

\* the meta.inputs objects a session can hold: the columns of dataOptions.inputs,
\* in any iteration order
InputMetas ==
    { << c >> : c \in Cols(InputPool[1]) } \cup
    { << c1, c2 >> : c1 \in Cols(InputPool[1]), c2 \in SecondCols(InputPool[2]) } \cup
    { << c2, c1 >> : c1 \in Cols(InputPool[1]), c2 \in SecondCols(InputPool[2]) }

OutputMetas(t) ==
    IF t = "classification"
    THEN { << c >> : c \in StringCols(OutputPool[1]) }
    ELSE IF t = "regression"
    THEN { << c >> : c \in NumericCols(OutputPool[1]) } \cup
         { << c1, c2 >> : c1 \in NumericCols(OutputPool[1]),
                          c2 \in SecondNumericCols(OutputPool[2]) }
    ELSE { << c >> : c \in SecondNumericCols(OutputPool[1]) }

ColNamed(cols, name) == cols[CHOOSE i \in DOMAIN cols : cols[i].name = name]

\* data.inputMin / inputMax follow dataOptions.inputs, outputMin / outputMax
\* follow meta.outputs
StatsOf(names, ins, outs) ==
    [ inputMin  |-> [ i \in DOMAIN names |-> Num(ColNamed(ins, names[i]).min) ],
      inputMax  |-> [ i \in DOMAIN names |-> Num(ColNamed(ins, names[i]).max) ],
      outputMin |-> [ i \in DOMAIN outs |-> Num(outs[i].min) ],
      outputMax |-> [ i \in DOMAIN outs |-> Num(outs[i].max) ] ]

MetaOf(ins, outs) ==
    [ inputs |-> ins, outputs |-> outs,
      inputUnits |-> Units(ins), outputUnits |-> Units(outs) ]

Tasks == { "classification", "regression", "other" }

(***************************************************************************)
(* Samples handed to predict / classify                                    *)
(***************************************************************************)
ColValues(c) ==
    IF c.dtype = "number" THEN 0..MaxVal
    ELSE { LabelPool[i] : i \in 1..MaxVocab } \cup { Unseen }

NoSample == [ form |-> "none", vals |-> << >>, fields |-> << >> ]

\* a sample is an array in the order of dataOptions.inputs or a keyed object
Samples(names, ins) ==
    LET col(i) == ColNamed(ins, names[i])
        rows == IF Len(names) = 1
                THEN { << v >> : v \in ColValues(col(1)) }
                ELSE { << v1, v2 >> : v1 \in ColValues(col(1)), v2 \in ColValues(col(2)) }
    IN  { [ form |-> "array", vals |-> r, fields |-> << >> ] : r \in rows } \cup
        { [ form |-> "object", vals |-> << >>,
            fields |-> [ k \in Range(names) |-> r[IndexOf(names, k)] ] ] : r \in rows }

\* the value of column `name` in sample s
SampleValue(s, names, name) ==
    IF s.form = "array" THEN s.vals[IndexOf(names, name)] ELSE s.fields[name]


(***************************************************************************)
(* NeuralNetwork.predictInternal (index.js 365-453)                        *)
(***************************************************************************)
\* lines 369-378: the sample as an array in the order of dataOptions.inputs
InputData(s) ==
    IF s.form = "array" THEN s.vals
    ELSE [ i \in DOMAIN inputNames |-> s.fields[inputNames[i]] ]

\* legend[val]: the entry's value, or undefined
LegendGet(legend, val) ==
    IF \E i \in DOMAIN legend : legend[i].key = val
    THEN [ found |-> TRUE,
           value |-> legend[CHOOSE i \in DOMAIN legend : legend[i].key = val].value ]
    ELSE [ found |-> FALSE, value |-> << >> ]

\* a variant of ValIndex that takes the value at the iteration position
ValIndexByIteration(cols, k) == k

\* line 388: the position of the column's value in inputData
ValIndex(cols, k) == IndexOf(inputNames, cols[k].name)

\* line 393
NormVal(val, lo, hi) == JsDiv(JsSub(Num(val), lo), JsSub(hi, lo))

\* lines 383-401: the forEach over Object.entries(meta.inputs); spreading an
\* undefined legend entry (line 398) throws a TypeError and ends the loop
RECURSIVE EncodeFrom(_, _, _, _)
EncodeFrom(cols, k, inputData, acc) ==
    IF k > Len(cols) THEN [ thrown |-> FALSE, vec |-> acc ]
    ELSE LET valIndex == ValIndex(cols, k)
             val == inputData[valIndex]
         IN  IF cols[k].dtype = "number"
             THEN EncodeFrom(cols, k + 1, inputData,
                      Append(acc, NormVal(val, stats.inputMin[valIndex],
                                               stats.inputMax[valIndex])))
             ELSE LET onehotVal == LegendGet(cols[k].legend, val)
                  IN  IF onehotVal.found
                      THEN EncodeFrom(cols, k + 1, inputData, acc \o onehotVal.value)
                      ELSE [ thrown |-> TRUE, vec |-> acc ]

EncodeSample(s) == EncodeFrom(meta.inputs, 1, InputData(s), << >>)

\* a variant of CompareConfidence that ranks ascending
CompareAscending(a, b) == JsSub(a.confidence, b.confidence)

\* line 427: the comparator handed to Array.prototype.sort
CompareConfidence(a, b) == JsSub(b.confidence, a.confidence)

\* Array.prototype.sort is stable (ECMAScript 2019): an element is placed after
\* every element the comparator does not put behind it
RECURSIVE InsertSorted(_, _)
InsertSorted(sorted, x) ==
    IF sorted = << >> THEN << x >>
    ELSE IF CompareConfidence(Head(sorted), x)[1] > 0
         THEN << x >> \o sorted
         ELSE << Head(sorted) >> \o InsertSorted(Tail(sorted), x)

RECURSIVE SortFrom(_, _, _)
SortFrom(seq, k, acc) ==
    IF k > Len(seq) THEN acc ELSE SortFrom(seq, k + 1, InsertSorted(acc, seq[k]))

SortByConfidence(seq) == SortFrom(seq, 1, << >>)

\* lines 421-426: one { label, confidence } per legend entry
LabelEntries(legend, predictions) ==
    [ idx \in DOMAIN legend |->
        [ label |-> legend[idx].key, confidence |-> predictions[idx] ] ]

\* lines 415-428: the sorted entries of every output column, of which [0] is kept
ClassificationOutput(outs, predictions) ==
    LET outputData == [ c \in DOMAIN outs |->
                          SortByConfidence(LabelEntries(outs[c].legend, predictions)) ]
    IN  outputData[1]

\* line 439
Denormalize(p, lo, hi) == JsAdd(JsMul(p, JsSub(hi, lo)), lo)

\* lines 437-443: one { value } per output column, of which [0] is kept
RegressionOutput(outs, predictions) ==
    LET outputData == [ idx \in DOMAIN outs |->
                          [ value |-> Denormalize(predictions[idx],
                                                  stats.outputMin[idx],
                                                  stats.outputMax[idx]) ] ]
    IN  outputData[1]

NoResults == [ kind |-> "none", output |-> << >>, tensor |-> << >> ]

\* the activations model.predict may answer with
Activations == { Norm(n, 2) : n \in 0..2 }

Predictions == [ 1..meta.outputUnits -> Activations ]

\* predictInternal up to its first await: lines 365-412 / 435.  libraryOk is
\* whether model.predict (line 404) returns; tf.tensor (line 403) throws when
\* the values do not fill the shape [1, inputUnits]; this.model.predict
\* throws a TypeError while this.model is null.
PredictCall(s, libraryOk) ==
    /\ predictPc # "awaitData"
    /\ live < MaxLive
    /\ LET enc == EncodeSample(s)
       IN  IF enc.thrown
           THEN /\ predictPc' = "failed"
                /\ err' = "TypeError"
                /\ sample' = s
                /\ encodedInput' = << >>
                /\ results' = NoResults
                /\ live' = live
           ELSE IF Len(enc.vec) # meta.inputUnits
           THEN /\ predictPc' = "failed"
                /\ err' = "ShapeError"
                /\ sample' = s
                /\ encodedInput' = enc.vec
                /\ results' = NoResults
                /\ live' = live
           ELSE IF model = "null"
           THEN /\ predictPc' = "failed"
                /\ err' = "TypeError"
                /\ sample' = s
                /\ encodedInput' = enc.vec
                /\ results' = NoResults
                /\ live' = live + 1
           ELSE IF ~libraryOk
           THEN /\ predictPc' = "failed"
                /\ err' = "PredictError"
                /\ sample' = s
                /\ encodedInput' = enc.vec
                /\ results' = NoResults
                /\ live' = live + 1
           ELSE IF task \in { "classification", "regression" }
           THEN /\ predictPc' = "awaitData"
                /\ err' = "none"
                /\ sample' = s
                /\ encodedInput' = enc.vec
                /\ results' = NoResults
                /\ live' = live + 1
           ELSE /\ predictPc' = "done"
                /\ err' = "none"
                /\ sample' = NoSample
                /\ encodedInput' = << >>
                /\ results' = [ kind |-> "null", output |-> << >>, tensor |-> << >> ]
                /\ live' = live
    /\ UNCHANGED << task, inputNames, meta, stats, dataTensor, trainPc, trainOwned,
                    config, model, load, trainCall, dataset, normalized, diy >>

\* predictInternal after `await ys.data()` (lines 412-450) resolved with
\* predictions: decode, xs.dispose(), return results
PredictResume(predictions) ==
    /\ predictPc = "awaitData"
    /\ predictPc' = "done"
    /\ results' = IF task = "classification"
                  THEN [ kind |-> "labels",
                         output |-> ClassificationOutput(meta.outputs, predictions),
                         tensor |-> predictions ]
                  ELSE [ kind |-> "value",
                         output |-> RegressionOutput(meta.outputs, predictions),
                         tensor |-> predictions ]
    /\ live' = live - 1
    /\ sample' = NoSample
    /\ encodedInput' = << >>
    /\ err' = "none"
    /\ UNCHANGED << task, inputNames, meta, stats, dataTensor, trainPc, trainOwned,
                    config, model, load, trainCall, dataset, normalized, diy >>

\* `await ys.data()` rejected: the promise of predictInternal rejects at line
\* 412 / 435 and line 449 is not reached
PredictDataRejected ==
    /\ predictPc = "awaitData"
    /\ predictPc' = "failed"
    /\ err' = "DataError"
    /\ results' = NoResults
    /\ sample' = NoSample
    /\ encodedInput' = << >>
    /\ UNCHANGED << task, inputNames, meta, stats, dataTensor, trainPc, trainOwned,
                    live, config, model, load, trainCall, dataset, normalized, diy >>


(***************************************************************************)
(* NeuralNetwork.trainInternal (index.js 286-333)                          *)
(***************************************************************************)
\* data.tensor.inputs / outputs are tf.Tensors that were disposed
TensorsDisposed == dataTensor.kind = "tensor" /\ dataTensor.disposed

\* an option value: undefined, or a number
Undefined == [ defined |-> FALSE, v |-> 0 ]

Val(n) == [ defined |-> TRUE, v |-> n ]

\* a || b
Truthy(a) == a.defined /\ a.v # 0

Or(a, b) == IF Truthy(a) THEN a ELSE b

\* the options object {}
EmptyOptions == [ batchSize |-> Undefined, epochs |-> Undefined ]

\* NeuralNetworkDefaults (index.js 16): batchSize and epochs
DEFAULTS == [ batchSize |-> Val(64), epochs |-> Val(32) ]

\* lines 27-60: this.config as the constructor builds it from its options;
\* batchSize and epochs are stored under config.training (lines 43-44)
ConfigOf(options) ==
    [ training |-> [ batchSize |-> Or(options.batchSize, DEFAULTS.batchSize),
                     epochs |-> Or(options.epochs, DEFAULTS.epochs) ] ]

\* object[key]: undefined for a key the object does not have
ConfigGet(cfg, key) == IF key \in DOMAIN cfg THEN cfg[key] ELSE Undefined

\* the arguments of a train call: undefined, an options object or a function
UndefinedArg == [ type |-> "undefined", opts |-> EmptyOptions, fn |-> "none" ]

NullArg == [ type |-> "null", opts |-> EmptyOptions, fn |-> "none" ]

ObjectArg(o) == [ type |-> "object", opts |-> o, fn |-> "none" ]

FunctionArg(f) == [ type |-> "function", opts |-> EmptyOptions, fn |-> f ]

\* typeof
TypeOf(a) == IF a.type = "null" THEN "object" ELSE a.type

\* index.js 251-277 and part_000 173-199: what train makes of its arguments
ParseTrainArgs(optionsOrCallback, optionsOrWhileTraining, callback) ==
    IF /\ TypeOf(optionsOrCallback) = "object"
       /\ TypeOf(optionsOrWhileTraining) = "function"
       /\ TypeOf(callback) = "function"
    THEN [ options |-> optionsOrCallback.opts,
           whileTrainingCb |-> optionsOrWhileTraining,
           finishedTrainingCb |-> callback ]
    ELSE IF /\ TypeOf(optionsOrCallback) = "object"
            /\ TypeOf(optionsOrWhileTraining) = "function"
    THEN [ options |-> optionsOrCallback.opts,
           whileTrainingCb |-> NullArg,
           finishedTrainingCb |-> optionsOrWhileTraining ]
    ELSE IF /\ TypeOf(optionsOrCallback) = "function"
            /\ TypeOf(optionsOrWhileTraining) = "function"
    THEN [ options |-> EmptyOptions,
           whileTrainingCb |-> optionsOrCallback,
           finishedTrainingCb |-> optionsOrWhileTraining ]
    ELSE [ options |-> EmptyOptions,
           whileTrainingCb |-> NullArg,
           finishedTrainingCb |-> optionsOrCallback ]

NoTrainCall ==
    [ args |-> << UndefinedArg, UndefinedArg, UndefinedArg >>,
      options |-> EmptyOptions, whileTrainingCb |-> NullArg,
      finishedTrainingCb |-> UndefinedArg,
      batchSize |-> Undefined, epochs |-> Undefined, fitCalled |-> FALSE ]

\* train (lines 248-280) and trainInternal (lines 286-330) up to
\* `await this.model.fit(...)`: the arguments are parsed, batchSize and
\* epochs are resolved (lines 287-288), xs / ys are new tensors when
\* data.tensor holds plain arrays and the data tensors themselves otherwise;
\* this.model.fit throws a TypeError while this.model is null
Train(optionsOrCallback, optionsOrWhileTraining, callback) ==
    LET parsed == ParseTrainArgs(optionsOrCallback, optionsOrWhileTraining, callback)
        batchSize == Or(parsed.options.batchSize, ConfigGet(config, "batchSize"))
        epochs == Or(parsed.options.epochs, ConfigGet(config, "epochs"))
    IN  /\ trainPc # "fitting"
        /\ trainCall' = [ args |-> << optionsOrCallback, optionsOrWhileTraining, callback >>,
                          options |-> parsed.options,
                          whileTrainingCb |-> parsed.whileTrainingCb,
                          finishedTrainingCb |-> parsed.finishedTrainingCb,
                          batchSize |-> batchSize, epochs |-> epochs,
                          fitCalled |-> model # "null" ]
        /\ IF dataTensor.kind = "tensor"
           THEN /\ trainOwned' = FALSE
                /\ live' = live
           ELSE /\ live + 2 <= MaxLive
                /\ trainOwned' = TRUE
                /\ live' = live + 2
        /\ IF model = "null"
           THEN /\ trainPc' = "failed"
                /\ err' = "TypeError"
           ELSE /\ trainPc' = "fitting"
                /\ err' = err
        /\ UNCHANGED << task, inputNames, meta, stats, dataTensor, predictPc, sample,
                        encodedInput, results, config, model, load,
                        dataset, normalized, diy >>

\* train()
TrainCall == Train(UndefinedArg, UndefinedArg, UndefinedArg)

\* model.fit resolved: lines 331-332, xs.dispose() and ys.dispose()
FitResolved ==
    /\ trainPc = "fitting"
    /\ ~TensorsDisposed
    /\ trainPc' = "done"
    /\ IF trainOwned
       THEN /\ live' = live - 2
            /\ dataTensor' = dataTensor
       ELSE /\ live' = live
            /\ dataTensor' = [ dataTensor EXCEPT !.disposed = TRUE ]
    /\ UNCHANGED << task, inputNames, meta, stats, predictPc, sample, encodedInput,
                    results, err, trainOwned, config, model, load, trainCall,
                    dataset, normalized, diy >>

\* model.fit rejected (it always does on disposed tensors): lines 331-332 are
\* not reached
FitRejected ==
    /\ trainPc = "fitting"
    /\ trainPc' = "failed"
    /\ err' = "FitError"
    /\ UNCHANGED << task, inputNames, meta, stats, dataTensor, predictPc, sample,
                    encodedInput, results, trainOwned, live, config, model, load,
                    trainCall, dataset, normalized, diy >>

(***************************************************************************)
(* NeuralNetwork.init, createModelFromDataInternal and addData             *)
(* (index.js 110-126, 214-237)                                             *)
(***************************************************************************)
\* a network constructed without a dataUrl: nothing is loaded
NoLoad ==
    [ pc |-> "none", file |-> MetaOf(<< >>, << >>), loaded |-> FALSE, added |-> 0,
      unitsComputed |-> FALSE, unitsFrom |-> [ loaded |-> FALSE, added |-> 0 ] ]

\* the awaited this.data.loadData() resolved (line 216): getIOUnits (line 220)
\* computes the units from data.raw as it is now, createModel (line 222)
\* builds the model from them
LoadDataResolved ==
    /\ load.pc = "loading"
    /\ load' = [ load EXCEPT !.pc = "done", !.loaded = TRUE, !.unitsComputed = TRUE,
                             !.unitsFrom = [ loaded |-> TRUE, added |-> load.added ] ]
    /\ meta' = load.file
    /\ stats' = StatsOf(inputNames, load.file.inputs, load.file.outputs)
    /\ model' = "created"
    /\ UNCHANGED << task, inputNames, dataTensor, predictPc, sample, encodedInput,
                    results, err, trainPc, trainOwned, live, config, trainCall,
                    dataset, normalized, diy >>

\* the awaited this.data.loadData() rejected: lines 220-222 are not reached
LoadDataRejected ==
    /\ load.pc = "loading"
    /\ load' = [ load EXCEPT !.pc = "failed" ]
    /\ UNCHANGED << task, inputNames, meta, stats, dataTensor, predictPc, sample,
                    encodedInput, results, err, trainPc, trainOwned, live, config,
                    model, trainCall, dataset, normalized, diy >>

\* lines 235-237: this.data.addData(xs, ys) adds a row to data.raw
AddData ==
    /\ load.added < MaxAdded
    /\ load' = [ load EXCEPT !.added = @ + 1 ]
    /\ UNCHANGED << task, inputNames, meta, stats, dataTensor, predictPc, sample,
                    encodedInput, results, err, trainPc, trainOwned, live, config,
                    model, trainCall, dataset, normalized, diy >>

(***************************************************************************)
(* The earlier NeuralNetwork.normalize (index.js 693-738).  A tensor is    *)
(* its shape and its values in row-major order.                            *)
(***************************************************************************)
RECURSIVE Flatten(_)
Flatten(rows) == IF rows = << >> THEN << >> ELSE Head(rows) \o Flatten(Tail(rows))

RECURSIVE MaxOf(_)
MaxOf(values) ==
    IF Len(values) = 1 THEN values[1]
    ELSE LET m == MaxOf(Tail(values))
         IN  IF JsLess(m, values[1]) THEN values[1] ELSE m

RECURSIVE MinOf(_)
MinOf(values) ==
    IF Len(values) = 1 THEN values[1]
    ELSE LET m == MinOf(Tail(values))
         IN  IF JsLess(values[1], m) THEN values[1] ELSE m

\* line 702: one row per input label, one entry per record, then tf.tensor
InputTensor(d) ==
    [ shape |-> << Len(d.inputKeys), Len(d.rows) >>,
      values |-> Flatten([ c \in DOMAIN d.inputKeys |->
                             [ r \in DOMAIN d.rows |-> Num(d.rows[r].xs[d.inputKeys[c]]) ] ]) ]

\* lines 703-712: the targets, one-hot encoded to noVal classes for a
\* classification
OutputTensor(d) ==
    IF d.task = "classification"
    THEN [ shape |-> << Len(d.rows), d.noVal >>,
           values |-> Flatten([ r \in DOMAIN d.rows |->
                                  [ j \in 1..d.noVal |->
                                      IF j = d.rows[r].ys + 1 THEN Num(1) ELSE Num(0) ] ]) ]
    ELSE [ shape |-> << Len(d.rows) >>,
           values |-> [ r \in DOMAIN d.rows |-> Num(d.rows[r].ys) ] ]

\* line 721: inputTensor.sub(targetMin).div(targetMax.sub(inputMin))
NormalizeInput(x, inputMin, inputMax, targetMin, targetMax) ==
    JsDiv(JsSub(x, targetMin), JsSub(targetMax, inputMin))

\* line 724: outputTensor.sub(targetMin).div(targetMax.sub(targetMin))
NormalizeOutput(y, targetMin, targetMax) ==
    JsDiv(JsSub(y, targetMin), JsSub(targetMax, targetMin))

\* lines 694-737; reshape (line 721) throws when the sizes differ
NormalizeResult(d) ==
    LET inputTensor == InputTensor(d)
        outputTensor == OutputTensor(d)
        inputMax == MaxOf(inputTensor.values)
        inputMin == MinOf(inputTensor.values)
        targetMax == MaxOf(outputTensor.values)
        targetMin == MinOf(outputTensor.values)
    IN  IF Len(d.rows) * d.inputUnits # Len(inputTensor.values)
        THEN [ kind |-> "thrown" ]
        ELSE [ kind |-> "ok",
               inputs |-> [ shape |-> << Len(d.rows), d.inputUnits >>,
                            values |-> [ i \in DOMAIN inputTensor.values |->
                                           NormalizeInput(inputTensor.values[i], inputMin,
                                                          inputMax, targetMin, targetMax) ] ],
               targets |-> [ shape |-> outputTensor.shape,
                             values |-> [ i \in DOMAIN outputTensor.values |->
                                            NormalizeOutput(outputTensor.values[i],
                                                            targetMin, targetMax) ] ],
               inputMax |-> inputMax, inputMin |-> inputMin,
               targetMax |-> targetMax, targetMin |-> targetMin ]

Normalize ==
    /\ normalized.kind = "none"
    /\ normalized' = NormalizeResult(dataset)
    /\ UNCHANGED << nnVars, dataset, diy >>

(***************************************************************************)
(* DiyNeuralNetwork.loadData / loadDataInternal (part_000 52-81).  A       *)
(* dataUrl is a sequence of segments.                                      *)
(***************************************************************************)
UrlSegments == { "data", "blob", ".csv", ".json", ".txt" }

Urls == UNION { [ 1..n -> UrlSegments ] : n \in 1..MaxUrlLen }

EndsWith(url, segment) == url[Len(url)] = segment

Includes(url, segment) == \E i \in DOMAIN url : url[i] = segment

\* lines 67-75: the loader the dataUrl selects
LoaderOf(url) ==
    IF EndsWith(url, ".csv") THEN "csv"
    ELSE IF EndsWith(url, ".json") THEN "json"
    ELSE IF Includes(url, "blob") THEN "blob"
    ELSE "none"

\* lines 79-80: createMetaDataFromData() and warmUp() on neuralNetworkData.data.raw
CreateMetaAndWarmUp(d) ==
    [ d EXCEPT !.metaFrom = d.raw, !.trainingFrom = d.raw,
               !.ranMeta = TRUE, !.ranWarmUp = TRUE ]

\* loadDataInternal up to its first await; without a loader (lines 73-75) it
\* logs and goes on to lines 79-80 at once
LoadDataCall(url) ==
    /\ diy.pc # "loading"
    /\ LET d == [ diy EXCEPT !.dataUrl = url, !.loader = LoaderOf(url),
                             !.ranMeta = FALSE, !.ranWarmUp = FALSE,
                             !.err = "none", !.logged = FALSE ]
       IN  IF LoaderOf(url) # "none"
           THEN diy' = [ d EXCEPT !.pc = "loading" ]
           ELSE diy' = [ CreateMetaAndWarmUp(d) EXCEPT !.pc = "done", !.logged = TRUE ]
    /\ UNCHANGED << nnVars, dataset, normalized >>

\* the awaited loadCSV / loadJSON / loadBlob resolved: lines 79-80
LoadResolved ==
    /\ diy.pc = "loading"
    /\ diy' = [ CreateMetaAndWarmUp([ diy EXCEPT !.raw = diy.loader ]) EXCEPT !.pc = "done" ]
    /\ UNCHANGED << nnVars, dataset, normalized >>

\* the awaited loader rejected: loadDataInternal rejects, lines 79-80 are
\* not reached
LoadRejected ==
    /\ diy.pc = "loading"
    /\ diy' = [ diy EXCEPT !.pc = "failed", !.err = "LoadError" ]
    /\ UNCHANGED << nnVars, dataset, normalized >>

(***************************************************************************)
(* DiyNeuralNetwork.train / trainInternal / addDefaultLayers / compile     *)
(* (part_000 173-320, 361-380).  this.neuralNetwork is its flags isLayered *)
(* and isCompiled and the layers added to it.                              *)
(***************************************************************************)
\* this.options.task: null (DEFAULTS, line 10) or a string
NullTask == [ isNull |-> TRUE, str |-> "" ]

TaskNamed(str) == [ isNull |-> FALSE, str |-> str ]

\* String.prototype.toLowerCase on the task names used here
ToLowerCase(str) ==
    CASE str = "Classification" -> "classification"
      [] str = "Regression" -> "regression"
      [] OTHER -> str

True == Val(1)

False == Val(0)

\* lines 373-379: createDenseLayer(_options), units 16 and relu unless given
DenseLayer(inputShape, units, activation) ==
    [ inputShape |-> inputShape, units |-> units, activation |-> activation ]

\* lines 253-285: the layers addDefaultLayers adds; _task.toLowerCase()
\* (line 258) throws a TypeError when _task is null
AddDefaultLayers(_task) ==
    IF _task.isNull
    THEN [ thrown |-> TRUE, layers |-> << >>, logged |-> FALSE ]
    ELSE CASE ToLowerCase(_task.str) = "classification" ->
                [ thrown |-> FALSE, logged |-> FALSE,
                  layers |-> << DenseLayer("inputUnits", "16", "relu"),
                                DenseLayer("none", "outputUnits", "softmax") >> ]
           [] ToLowerCase(_task.str) = "regression" ->
                [ thrown |-> FALSE, logged |-> FALSE,
                  layers |-> << DenseLayer("inputUnits", "16", "relu"),
                                DenseLayer("none", "outputUnits", "sigmoid") >> ]
           [] OTHER ->
                [ thrown |-> FALSE, logged |-> TRUE, layers |-> << >> ]

\* what a call of addDefaultLayers did: its argument, whether it threw, the
\* number of layers it added to the model
DefaultLayersCall(_task, d) ==
    LET added == AddDefaultLayers(_task)
    IN  [ called |-> TRUE, task |-> _task, thrown |-> added.thrown,
          added |-> Len(d.layers \o added.layers) - Len(d.layers) ]

\* neuralNetwork.addLayer for every layer of addDefaultLayers(_task)
WithDefaultLayers(_task, d) ==
    LET added == AddDefaultLayers(_task)
    IN  [ d EXCEPT !.layers = @ \o added.layers,
                   !.isLayered = @ \/ added.layers # << >>,
                   !.defaultLayers = DefaultLayersCall(_task, d) ]

\* lines 292-320: the options compile() hands to neuralNetwork.compile
CompileOptions(t) ==
    IF ~t.isNull /\ t.str = "classification"
    THEN [ loss |-> "categoricalCrossentropy", optimizer |-> "sgd" ]
    ELSE IF ~t.isNull /\ t.str = "regression"
    THEN [ loss |-> "meanSquaredError", optimizer |-> "adam" ]
    ELSE [ loss |-> "undefined", optimizer |-> "sgd" ]

Compiled(d) == [ d EXCEPT !.isCompiled = TRUE, !.compiledWith = CompileOptions(d.task) ]

\* lines 211-218: the defaults of trainInternal, overridden by _options
TrainDefaults ==
    [ epochs |-> Val(10), batchSize |-> Val(32), compile |-> True,
      inputs |-> Undefined ]

MergedOptions(_options) ==
    [ key \in DOMAIN TrainDefaults |->
        IF ConfigGet(_options, key).defined
        THEN _options[key]
        ELSE TrainDefaults[key] ]

\* train (lines 173-202) and trainInternal (lines 209-250): the steps the
\* call takes are recorded in trainLog
DiyTrain(optionsOrCallback, optionsOrWhileTraining, callback) ==
    LET parsed == ParseTrainArgs(optionsOrCallback, optionsOrWhileTraining, callback)
        options == MergedOptions(parsed.options)
        convert == IF ~Truthy(options.inputs)
                   THEN << "convertTrainingDataToTensors" >> ELSE << >>
        d0 == [ diy EXCEPT !.trainArgs = << optionsOrCallback, optionsOrWhileTraining,
                                           callback >>,
                           !.layeredAtCall = diy.isLayered,
                           !.trainLog = convert,
                           !.trainErr = "none",
                           !.trainOptions = options,
                           !.finishedTrainingCb = parsed.finishedTrainingCb ]
        d1 == IF ~d0.isLayered
              THEN [ WithDefaultLayers(d0.task, d0) EXCEPT
                         !.trainLog = Append(@, "addDefaultLayers") ]
              ELSE d0
        d2 == IF Truthy(options.compile)
              THEN [ Compiled(d1) EXCEPT !.trainLog = Append(@, "compile") ]
              ELSE d1
    IN  /\ diy.pc # "none"
        /\ IF ~d0.isLayered /\ AddDefaultLayers(d0.task).thrown
           THEN diy' = [ d1 EXCEPT !.trainErr = "TypeError" ]
           ELSE diy' = [ d2 EXCEPT !.trainLog = Append(@, "train"),
                                   !.training = TRUE ]
        /\ UNCHANGED << nnVars, dataset, normalized >>

\* addDefaultLayers(_task) called on the instance
DiyAddDefaultLayers(_task) ==
    /\ diy.pc # "none"
    /\ Len(diy.layers) + Len(AddDefaultLayers(_task).layers) <= MaxLayers
    /\ diy' = WithDefaultLayers(_task, diy)
    /\ UNCHANGED << nnVars, dataset, normalized >>

\* lines 361-363: addLayer(createDenseLayer({ units, activation }))
DiyAddLayer ==
    /\ diy.pc # "none"
    /\ Len(diy.layers) < MaxLayers
    /\ diy' = [ diy EXCEPT !.layers = Append(@, DenseLayer("none", "16", "relu")),
                           !.isLayered = TRUE ]
    /\ UNCHANGED << nnVars, dataset, normalized >>

\* lines 292-320: compile()
DiyCompile ==
    /\ diy.pc # "none"
    /\ diy' = Compiled(diy)
    /\ UNCHANGED << nnVars, dataset, normalized >>

(***************************************************************************)
(* Initial states                                                          *)
(***************************************************************************)
NoDataset == [ inputKeys |-> << >>, rows |-> << >> ]
NoNormalized == [ kind |-> "none" ]
NoDiy == [ pc |-> "none" ]

\* a constructed NeuralNetwork whose data (meta, stats, tensors) is in place
NNReady(t, ins, outs, tensorKind) ==
    /\ task = t
    /\ inputNames = [ i \in DOMAIN ins |-> InputPool[i] ]
    /\ meta = MetaOf(ins, outs)
    /\ stats = StatsOf([ i \in DOMAIN ins |-> InputPool[i] ], ins, outs)
    /\ dataTensor = [ kind |-> tensorKind, disposed |-> FALSE ]
    /\ predictPc = "idle"
    /\ sample = NoSample
    /\ encodedInput = << >>
    /\ results = NoResults
    /\ err = "none"
    /\ trainPc = "idle"
    /\ trainOwned = FALSE
    /\ live = 0
    /\ model = "created"
    /\ load = NoLoad
    /\ trainCall = NoTrainCall

InitPredict ==
    /\ \E t \in Tasks : \E ins \in InputMetas : \E outs \in OutputMetas(t) :
           NNReady(t, ins, outs, "array")
    /\ config = ConfigOf(EmptyOptions)
    /\ dataset = NoDataset
    /\ normalized = NoNormalized
    /\ diy = NoDiy

\* predict / classify calls against a library whose calls succeed
NextPredict ==
    \/ \E s \in Samples(inputNames, meta.inputs) : PredictCall(s, TRUE)
    \/ \E predictions \in Predictions : PredictResume(predictions)

SpecPredict == InitPredict /\ [][NextPredict]_vars


(***************************************************************************)
(* Properties of predictInternal                                           *)
(***************************************************************************)
\* where the sub-vector of the k-th column of meta.inputs starts
Offset(k) == Units(SubSeq(meta.inputs, 1, k - 1))

\* the sub-vector of column c for sample s, from c's own value and c's own
\* min / max or legend
ColumnEncoding(c, s) ==
    LET v == SampleValue(s, inputNames, c.name)
    IN  IF c.dtype = "number"
        THEN << JsDiv(JsSub(Num(v), Num(c.min)), JsSub(Num(c.max), Num(c.min))) >>
        ELSE LegendGet(c.legend, v).value

\* column k of meta.inputs holds a value of sample s that its legend lacks
UnseenAt(s, k) ==
    /\ meta.inputs[k].dtype = "string"
    /\ ~LegendGet(meta.inputs[k].legend,
                  SampleValue(s, inputNames, meta.inputs[k].name)).found

HasUnseen(s) == \E k \in DOMAIN meta.inputs : UnseenAt(s, k)

\* C1: for a sample whose categorical values are all in the vocabulary, the
\* vector predictInternal encodes has length meta.inputUnits and is the
\* concatenation, in the iteration order of meta.inputs, of each column's
\* sub-vector, derived from that column's value and that column's min / max
\* or legend.
C1_EncodedVector ==
    predictPc = "awaitData" =>
        /\ Len(encodedInput) = meta.inputUnits
        /\ \A k \in DOMAIN meta.inputs :
               SubSeq(encodedInput, Offset(k) + 1, Offset(k) + ColWidth(meta.inputs[k]))
                   = ColumnEncoding(meta.inputs[k], sample)

\* a keyed sample encoded for a meta whose iteration order differs from
\* dataOptions.inputs, with one categorical and one numeric column
C1_Witness ==
    /\ predictPc = "awaitData"
    /\ sample.form = "object"
    /\ Len(meta.inputs) = 2
    /\ meta.inputs[1].name = InputPool[2]
    /\ meta.inputs[1].dtype = "number"
    /\ meta.inputs[1].min < meta.inputs[1].max
    /\ meta.inputs[2].dtype = "string"
    /\ Len(meta.inputs[2].legend) = 2
    /\ Len(encodedInput) = 3

\* C2: a sample whose value for a categorical input column is not a key of
\* the column's legend makes the call fail with a ValueNotInVocabulary
\* error, without an encoded vector handed on and without reaching
\* model.predict.
C2_UnseenValueRejected ==
    (sample.form # "none" /\ HasUnseen(sample)) =>
        /\ predictPc = "failed"
        /\ err = "ValueNotInVocabulary"
        /\ results = NoResults
        /\ live = 0

\* normalize: constant inputs / constant targets are normalized to numbers
ConstantDataDefined ==
    normalized.kind = "ok" =>
        /\ normalized.inputMin = normalized.inputMax =>
               \A i \in DOMAIN normalized.inputs.values :
                   IsFinite(normalized.inputs.values[i])
        /\ normalized.targetMin = normalized.targetMax =>
               \A i \in DOMAIN normalized.targets.values :
                   IsFinite(normalized.targets.values[i])

\* C3: a numeric column whose min equals its max is normalized, by the
\* inference encoding of predictInternal and by normalize, to a defined
\* number, never to NaN or an infinity.
C3_ConstantColumnDefined ==
    /\ predictPc = "awaitData" =>
           \A k \in DOMAIN meta.inputs :
               (meta.inputs[k].dtype = "number" /\ meta.inputs[k].min = meta.inputs[k].max)
                   => IsFinite(encodedInput[Offset(k) + 1])
    /\ ConstantDataDefined

\* the values a regression result holds
ResultValues(r) == << r.output.value >>

\* C5: the decoded result of a regression holds, for every output column i,
\* prediction[i] * (outputMax[i] - outputMin[i]) + outputMin[i]; no output
\* column is dropped.
C5_AllOutputsDecoded ==
    (predictPc = "done" /\ results.kind = "value") =>
        /\ Len(ResultValues(results)) = Len(meta.outputs)
        /\ \A i \in DOMAIN meta.outputs :
               i \in DOMAIN ResultValues(results) =>
                   ResultValues(results)[i] =
                       JsAdd(JsMul(results.tensor[i],
                                   JsSub(Num(meta.outputs[i].max), Num(meta.outputs[i].min))),
                             Num(meta.outputs[i].min))

C6_TieWitness ==
    /\ predictPc = "done"
    /\ results.kind = "labels"
    /\ Len(results.output) >= 2
    /\ results.tensor[1] = results.tensor[2]


(***************************************************************************)
(* A NeuralNetwork session: train and predict / classify calls, each of    *)
(* which the tensor library may fail                                       *)
(***************************************************************************)
SessionInputs == { << c >> : c \in SecondCols(InputPool[1]) }

SessionOutputs(t) == { outs \in OutputMetas(t) : Len(outs) = 1 }

Init ==
    /\ \E t \in Tasks : \E ins \in SessionInputs : \E outs \in SessionOutputs(t) :
       \E tensorKind \in { "array", "tensor" } :
           NNReady(t, ins, outs, tensorKind)
    /\ config = ConfigOf(EmptyOptions)
    /\ dataset = NoDataset
    /\ normalized = NoNormalized
    /\ diy = NoDiy

Next ==
    \/ \E s \in Samples(inputNames, meta.inputs) : \E libraryOk \in BOOLEAN :
           PredictCall(s, libraryOk)
    \/ \E predictions \in Predictions : PredictResume(predictions)
    \/ PredictDataRejected
    \/ TrainCall
    \/ FitResolved
    \/ FitRejected

Spec == Init /\ [][Next]_vars

\* no train or predict / classify call is pending
Quiescent == predictPc # "awaitData" /\ trainPc # "fitting"

\* C9: every tensor a train or predict / classify call creates for the
\* tensor library is disposed by the time the call finishes, whether
\* model.fit / model.predict succeeds or fails: once no call is pending, no
\* such tensor is live.
C9_TensorsReleased == Quiescent => live = 0

\* C10: train leaves data.tensor.inputs / outputs usable: they are never
\* disposed, so that a further train call can use them.
C10_TrainingTensorsKept == ~dataTensor.disposed


(***************************************************************************)
(* normalize applied to a dataset                                          *)
(***************************************************************************)
NoNN ==
    /\ task = "none"
    /\ inputNames = << >>
    /\ meta = MetaOf(<< >>, << >>)
    /\ stats = StatsOf(<< >>, << >>, << >>)
    /\ dataTensor = [ kind |-> "array", disposed |-> FALSE ]
    /\ predictPc = "idle"
    /\ sample = NoSample
    /\ encodedInput = << >>
    /\ results = NoResults
    /\ err = "none"
    /\ trainPc = "idle"
    /\ trainOwned = FALSE
    /\ live = 0
    /\ config = ConfigOf(EmptyOptions)
    /\ model = "null"
    /\ load = NoLoad
    /\ trainCall = NoTrainCall

KeyLists == { SubSeq(InputPool, 1, n) : n \in 1..Len(InputPool) }

Records(keys) == [ xs : [ Range(keys) -> 0..MaxVal ], ys : 0..MaxVal ]

Datasets ==
    { [ task |-> t, inputKeys |-> keys, inputUnits |-> Len(keys),
        noVal |-> MaxVal + 1, rows |-> rows ] :
        t \in { "classification", "regression" },
        keys \in KeyLists,
        rows \in UNION { [ 1..n -> UNION { Records(k) : k \in KeyLists } ] : n \in 1..MaxRows } }

InitNormalize ==
    /\ NoNN
    /\ dataset \in { d \in Datasets :
                       \A r \in DOMAIN d.rows : DOMAIN d.rows[r].xs = Range(d.inputKeys) }
    /\ normalized = NoNormalized
    /\ diy = NoDiy

NextNormalize == Normalize

SpecNormalize == InitNormalize /\ [][NextNormalize]_vars

InUnitInterval(v) == JsLeq(Num(0), v) /\ JsLeq(v, Num(1))

\* C4: every normalized input value and every normalized output value of
\* normalize lies in [0, 1].
C4_NormalizedInUnitInterval ==
    normalized.kind = "ok" =>
        /\ \A i \in DOMAIN normalized.inputs.values :
               InUnitInterval(normalized.inputs.values[i])
        /\ \A i \in DOMAIN normalized.targets.values :
               InUnitInterval(normalized.targets.values[i])

(***************************************************************************)
(* Encoding the output values of a dataset and decoding them again         *)
(***************************************************************************)
\* the rows of output values behind the min / max of meta.outputs
OutputRows ==
    LET vals(i) == meta.outputs[i].min .. meta.outputs[i].max
    IN  IF Len(meta.outputs) = 1
        THEN { << v >> : v \in vals(1) }
        ELSE { << v1, v2 >> : v1 \in vals(1), v2 \in vals(2) }

EncodedRow(row) ==
    [ i \in DOMAIN row |->
        NormalizeOutput(Num(row[i]), stats.outputMin[i], stats.outputMax[i]) ]

InitRoundTrip ==
    /\ \E ins \in SessionInputs : \E outs \in OutputMetas("regression") :
           NNReady("regression", ins, outs, "array")
    /\ config = ConfigOf(EmptyOptions)
    /\ dataset = NoDataset
    /\ normalized = NoNormalized
    /\ diy = NoDiy

\* predict calls on a model that answers the encoded output values of a row
NextRoundTrip ==
    \/ \E s \in Samples(inputNames, meta.inputs) : PredictCall(s, TRUE)
    \/ \E row \in OutputRows : PredictResume(EncodedRow(row))

SpecRoundTrip == InitRoundTrip /\ [][NextRoundTrip]_vars

\* C7: for every regression output column and every value v of the column,
\* min-max encoding v with the column's output min / max and decoding the
\* result with the regression decode of predict returns v.
C7_RoundTrip ==
    (predictPc = "done" /\ results.kind = "value") =>
        \A row \in OutputRows :
            results.tensor = EncodedRow(row) =>
                /\ Len(ResultValues(results)) = Len(row)
                /\ \A i \in DOMAIN row :
                       i \in DOMAIN ResultValues(results) =>
                           ResultValues(results)[i] = Num(row[i])

(***************************************************************************)
(* A DiyNeuralNetwork instance loading data                                *)
(***************************************************************************)
InitDiy ==
    /\ NoNN
    /\ dataset = NoDataset
    /\ normalized = NoNormalized
    /\ diy = [ pc |-> "idle", dataUrl |-> << >>, loader |-> "none", raw |-> "none",
               metaFrom |-> "unset", trainingFrom |-> "unset",
               ranMeta |-> FALSE, ranWarmUp |-> FALSE, err |-> "none", logged |-> FALSE ]

NextDiy ==
    \/ \E url \in Urls : LoadDataCall(url)
    \/ LoadResolved
    \/ LoadRejected

SpecDiy == InitDiy /\ [][NextDiy]_vars

\* C8: loadData with a dataUrl that neither ends in .csv or .json nor
\* contains 'blob' fails with an UnsupportedFormat error, and neither
\* createMetaDataFromData nor warmUp runs.
C8_UnsupportedFormatRejected ==
    (diy.pc # "idle" /\ LoaderOf(diy.dataUrl) = "none") =>
        /\ diy.pc = "failed"
        /\ diy.err = "UnsupportedFormat"
        /\ ~diy.ranMeta
        /\ ~diy.ranWarmUp


(***************************************************************************)
(* A NeuralNetwork constructed with a dataUrl: the load started by the     *)
(* constructor is pending while the API is called                          *)
(***************************************************************************)
InitLoad ==
    /\ \E t \in Tasks : \E ins \in SessionInputs : \E outs \in SessionOutputs(t) :
           /\ task = t
           /\ inputNames = [ i \in DOMAIN ins |-> InputPool[i] ]
           /\ load = [ NoLoad EXCEPT !.pc = "loading", !.file = MetaOf(ins, outs) ]
    /\ meta = MetaOf(<< >>, << >>)
    /\ stats = StatsOf(<< >>, << >>, << >>)
    /\ dataTensor = [ kind |-> "array", disposed |-> FALSE ]
    /\ predictPc = "idle"
    /\ sample = NoSample
    /\ encodedInput = << >>
    /\ results = NoResults
    /\ err = "none"
    /\ trainPc = "idle"
    /\ trainOwned = FALSE
    /\ live = 0
    /\ config = ConfigOf(EmptyOptions)
    /\ model = "null"
    /\ trainCall = NoTrainCall
    /\ dataset = NoDataset
    /\ normalized = NoNormalized
    /\ diy = NoDiy

\* the samples of the columns the file at dataUrl holds
LoadSamples == Samples(inputNames, load.file.inputs)

\* a call of addData, train or predict / classify
ApiCall ==
    \/ AddData
    \/ TrainCall
    \/ \E s \in LoadSamples : \E libraryOk \in BOOLEAN : PredictCall(s, libraryOk)

NextLoad ==
    \/ LoadDataResolved
    \/ LoadDataRejected
    \/ ApiCall
    \/ \E predictions \in Predictions : PredictResume(predictions)
    \/ PredictDataRejected
    \/ FitResolved
    \/ FitRejected

SpecLoad == InitLoad /\ [][NextLoad]_vars

\* the load started by the constructor, or a train call, is pending
TaskPending == load.pc = "loading" \/ trainPc = "fitting"

\* C11: the dataset, its metadata and the model are accessed by at most one
\* logical task at a time: while the data load started by the constructor,
\* or a running train, is pending, no addData, train or predict call reads
\* or writes them.
C11_ExclusiveAccess == [][TaskPending => ~ApiCall]_vars

\* C12: when a network is constructed with a dataUrl, the data load
\* completes before the input / output units (for a DiyNeuralNetwork: the
\* metadata and the warm-up encoding) are computed, and those are computed
\* before the model is created: the model is null until then, and the units
\* are never computed on data whose load has not completed.
C12_LoadThenUnitsThenModel ==
    /\ load.pc # "none" =>
           /\ model = "created" => load.unitsComputed
           /\ load.unitsComputed => (load.loaded /\ load.unitsFrom.loaded)
           /\ load.pc \in { "loading", "failed" } => model = "null"
    /\ (diy.pc # "none" /\ (diy.ranMeta \/ diy.ranWarmUp)) =>
           (diy.raw # "none" /\ diy.metaFrom = diy.raw /\ diy.trainingFrom = diy.raw)


(***************************************************************************)
(* train calls in their calling forms, on a NeuralNetwork constructed      *)
(* with or without batchSize / epochs                                      *)
(***************************************************************************)
\* the values of a batchSize / epochs option
OptionValues == { Undefined, Val(0), Val(16) }

OptionObjects == [ batchSize : OptionValues, epochs : OptionValues ]

Callbacks == { FunctionArg("whileTraining"), FunctionArg("finishedTraining") }

\* train(optionsOrCallback, optionsOrWhileTraining, callback)
TrainArgs ==
    ({ UndefinedArg } \cup { ObjectArg(o) : o \in OptionObjects } \cup Callbacks)
        \X ({ UndefinedArg } \cup Callbacks)
        \X ({ UndefinedArg } \cup Callbacks)

InitTrain ==
    /\ LET col(name) == CHOOSE c \in NumericCols(name) : c.min = 0 /\ c.max = MaxVal
       IN  \E tensorKind \in { "array", "tensor" } :
               NNReady("regression", << col(InputPool[1]) >>, << col(OutputPool[1]) >>,
                       tensorKind)
    /\ \E options \in OptionObjects : config = ConfigOf(options)
    /\ dataset = NoDataset
    /\ normalized = NoNormalized
    /\ diy = NoDiy

NextTrain ==
    \/ \E args \in TrainArgs : Train(args[1], args[2], args[3])
    \/ FitResolved
    \/ FitRejected

SpecTrain == InitTrain /\ [][NextTrain]_vars

\* the option `key` of the options object handed to the last train call
GivenOption(key) ==
    IF trainCall.args[1].type = "object"
    THEN trainCall.args[1].opts[key]
    ELSE Undefined

\* C14: when train is called without batchSize / epochs, model.fit receives
\* the value stored at construction (the constructor option, else the
\* default); when the options of train give one, model.fit receives that
\* value.
C14_FitBatchSizeAndEpochs ==
    trainCall.fitCalled =>
        /\ ~GivenOption("batchSize").defined =>
               trainCall.batchSize = config.training.batchSize
        /\ ~GivenOption("epochs").defined =>
               trainCall.epochs = config.training.epochs
        /\ Truthy(GivenOption("batchSize")) =>
               trainCall.batchSize = GivenOption("batchSize")
        /\ Truthy(GivenOption("epochs")) =>
               trainCall.epochs = GivenOption("epochs")

\* C16: whenever the first argument of train is an options object, followed
\* by two, one or no callbacks, trainInternal receives that object as its
\* options; it receives {} only when the first argument is not an object.
C16_OptionsHandedOn ==
    /\ trainCall.args[1].type = "object" =>
           trainCall.options = trainCall.args[1].opts
    /\ trainCall.args[1].type # "object" =>
           trainCall.options = EmptyOptions


(***************************************************************************)
(* A DiyNeuralNetwork instance, constructed without a dataUrl, on which    *)
(* layers are added, compile is called and train is called                 *)
(***************************************************************************)
DiyTasks ==
    { NullTask, TaskNamed("classification"), TaskNamed("regression"),
      TaskNamed("Classification"), TaskNamed("imageClassification") }

NoDefaultLayersCall ==
    [ called |-> FALSE, task |-> NullTask, thrown |-> FALSE, added |-> 0 ]

InitDiyTrain ==
    /\ NoNN
    /\ dataset = NoDataset
    /\ normalized = NoNormalized
    /\ \E t \in DiyTasks :
           diy = [ pc |-> "idle", dataUrl |-> << >>, loader |-> "none", raw |-> "none",
                   metaFrom |-> "unset", trainingFrom |-> "unset",
                   ranMeta |-> FALSE, ranWarmUp |-> FALSE, err |-> "none",
                   logged |-> FALSE,
                   task |-> t, isLayered |-> FALSE, layers |-> << >>,
                   isCompiled |-> FALSE,
                   compiledWith |-> [ loss |-> "undefined", optimizer |-> "undefined" ],
                   defaultLayers |-> NoDefaultLayersCall,
                   trainArgs |-> << UndefinedArg, UndefinedArg, UndefinedArg >>,
                   layeredAtCall |-> FALSE, trainLog |-> << >>, trainErr |-> "none",
                   trainOptions |-> TrainDefaults,
                   finishedTrainingCb |-> UndefinedArg, training |-> FALSE ]

\* the options objects handed to train
DiyOptionObjects ==
    { o \in [ epochs : { Undefined, Val(16) }, batchSize : { Undefined },
              compile : { Undefined, True, False }, inputs : { Undefined, Val(1) } ] :
        o.epochs.defined => (o.compile = Undefined /\ o.inputs = Undefined) }

DiyTrainArgs ==
    ({ UndefinedArg, FunctionArg("whileTraining") }
         \cup { ObjectArg(o) : o \in DiyOptionObjects })
        \X { UndefinedArg, FunctionArg("whileTraining") }
        \X { UndefinedArg, FunctionArg("finishedTraining") }

NextDiyTrain ==
    \/ \E args \in DiyTrainArgs : DiyTrain(args[1], args[2], args[3])
    \/ \E t \in DiyTasks : DiyAddDefaultLayers(t)
    \/ DiyAddLayer
    \/ DiyCompile

SpecDiyTrain == InitDiyTrain /\ [][NextDiyTrain]_vars

\* the steps of the last trainInternal call that concern the model
ModelSteps == SelectSeq(diy.trainLog, LAMBDA step : step # "convertTrainingDataToTensors")

\* C13: in every call of trainInternal, default layers are added first if
\* and only if the model has no layers yet, then the model is compiled, and
\* only then neuralNetwork.train is invoked: on a model that has layers and
\* is compiled.
C13_TrainOnceCompiled ==
    (diy.pc # "none" /\ diy.trainLog # << >>) =>
        /\ ModelSteps = (IF diy.layeredAtCall THEN << >> ELSE << "addDefaultLayers" >>)
                            \o << "compile", "train" >>
        /\ diy.isLayered
        /\ diy.isCompiled

\* the task, lower-cased, is neither 'classification' nor 'regression'
NoDefaultsFor(t) ==
    t.isNull \/ ToLowerCase(t.str) \notin { "classification", "regression" }

\* C15: addDefaultLayers called with a task that is neither
\* 'classification' nor 'regression', the unset task null included, adds no
\* layers and returns without raising an exception.
C15_UnknownTaskAddsNothing ==
    (diy.pc # "none" /\ diy.defaultLayers.called /\ NoDefaultsFor(diy.defaultLayers.task)) =>
        /\ ~diy.defaultLayers.thrown
        /\ diy.defaultLayers.added = 0

=============================================================================
